---- MODULE Spec2Model ----
(***************************************************************************)
(* A model of image_generators.py: the path/label resolver                 *)
(* (get_names_and_labels), the directory initializer                       *)
(* (initialize_hierarchy), the batch assembler (load_images_into_batches), *)
(* the streaming generator (image_generator) and the image writer          *)
(* (save_images).                                                          *)
(*                                                                         *)
(* Conventions.  A Python str is a sequence of one-character strings, so   *)
(* that slicing, joining and int() act on it as they do in Python.  A      *)
(* value that may be None is a sequence of length 0 (None) or 1.  A numpy  *)
(* array is a record [shape, data] with data in row-major order; a         *)
(* multiprocessing.RawArray is a record [ctype, data] and has no shape.    *)
(* Float values of the target rows are kept in units of 1e-5.              *)
(***************************************************************************)
EXTENDS Integers, Sequences, FiniteSets, TLC

VARIABLES
    \* get_names_and_labels
    r_img_dir,      \* the img_dir argument (a str)
    r_fs,           \* the directory tree: [dirs, files], sets of absolute paths
    r_call,         \* the arguments of the last call
    r_result,       \* what the last call returned or raised
    r_io,           \* listings and lookups the last call performed, in order
    \* initialize_hierarchy
    h_fs,           \* kind of tgt_dir and of each class directory
    h_result,       \* outcome of the last call
    h_prev,         \* history: h_fs and h_result as they were before the last call
    \* load_images_into_batches and image_generator: the arguments
    imgs_info,
    batch_size,
    max_samples,
    out_arrays,     \* result of the call with to_buffer=False
    out_buffers,    \* result of the call with to_buffer=True
    \* image_generator: the frame of the suspended generator
    adv_dir,
    g_pc,           \* "start" before the first next(), "yielded" afterwards
    idx,
    total,
    g_yield,        \* the list handed to the consumer by the last next()
    cycle_count,    \* history: records handed out since the window was last completed
    g_tick,         \* history: flips with every yield
    g_wrapped,      \* history: a cycle has been completed and a new one begun
    \* save_images
    s_call,         \* the arguments of the last call
    s_tasks,        \* the (image index, path) pairs given to starmap
    s_out,          \* output_dir: path -> index of the image stored there
    s_result

r_vars == <<r_img_dir, r_fs, r_call, r_result, r_io>>
h_vars == <<h_fs, h_result, h_prev>>
in_vars == <<imgs_info, batch_size, max_samples>>
b_vars == <<out_arrays, out_buffers>>
g_vars == <<adv_dir, g_pc, idx, total, g_yield, cycle_count, g_tick, g_wrapped>>
s_vars == <<s_call, s_tasks, s_out, s_result>>
vars == <<r_vars, h_vars, in_vars, b_vars, g_vars, s_vars>>

----------------------------------------------------------------------------
\* Python values

None == <<>>
Some(v) == <<v>>
IsNone(o) == o = <<>>
Val(o) == o[1]

Min(a, b) == IF a < b THEN a ELSE b

\* s[i:j] of a Python sequence, for 0 <= i and 0 <= j (0-based, end exclusive).
Slice(s, i, j) ==
    LET hi == Min(j, Len(s))
    IN  IF i >= hi THEN <<>> ELSE SubSeq(s, i + 1, hi)

\* s[i:]
SliceFrom(s, i) == Slice(s, i, Len(s))

\* range(0, stop, step), step >= 1
RECURSIVE RangeFrom(_, _, _)
RangeFrom(start, stop, step) ==
    IF start >= stop THEN <<>>
    ELSE <<start>> \o RangeFrom(start + step, stop, step)

Range(stop, step) == RangeFrom(0, stop, step)

RECURSIVE Prod(_)
Prod(shape) == IF shape = <<>> THEN 1 ELSE shape[1] * Prod(Tail(shape))

RECURSIVE Concat(_)
Concat(ss) == IF ss = <<>> THEN <<>> ELSE ss[1] \o Concat(Tail(ss))

----------------------------------------------------------------------------
\* Strings and paths (posixpath)

Digits == <<"0", "1", "2", "3", "4", "5", "6", "7", "8", "9">>
Letters == <<"a", "b", "c", "d", "e", "f", "g", "h", "o", "s", "x">>

\* Code point order of the characters in use: "/" < digits < letters.
Ord(c) ==
    IF c = "/" THEN 47
    ELSE IF \E k \in 1..Len(Digits) : Digits[k] = c
         THEN 47 + (CHOOSE k \in 1..Len(Digits) : Digits[k] = c)
         ELSE 96 + (CHOOSE k \in 1..Len(Letters) : Letters[k] = c)

RECURSIVE StrLess(_, _)
StrLess(a, b) ==
    IF b = <<>> THEN FALSE
    ELSE IF a = <<>> THEN TRUE
    ELSE IF a[1] = b[1] THEN StrLess(Tail(a), Tail(b))
    ELSE Ord(a[1]) < Ord(b[1])

\* sorted(S) for a set of str
RECURSIVE Sorted(_)
Sorted(S) ==
    IF S = {} THEN <<>>
    ELSE LET m == CHOOSE x \in S : \A y \in S \ {x} : StrLess(x, y)
         IN  <<m>> \o Sorted(S \ {m})

IsAbs(p) == p # <<>> /\ p[1] = "/"

\* os.path.join(a, b)
Join(a, b) ==
    IF IsAbs(b) THEN b
    ELSE IF a = <<>> \/ a[Len(a)] = "/" THEN a \o b
    ELSE a \o <<"/">> \o b

\* The non-empty components of a path.
RECURSIVE Components(_, _)
Components(p, cur) ==
    IF p = <<>> THEN (IF cur = <<>> THEN <<>> ELSE <<cur>>)
    ELSE IF p[1] = "/"
         THEN (IF cur = <<>> THEN <<>> ELSE <<cur>>) \o Components(Tail(p), <<>>)
         ELSE Components(Tail(p), Append(cur, p[1]))

RECURSIVE JoinComponents(_)
JoinComponents(cs) ==
    IF cs = <<>> THEN <<>>
    ELSE IF Len(cs) = 1 THEN cs[1]
    ELSE cs[1] \o <<"/">> \o JoinComponents(Tail(cs))

\* os.path.normpath on absolute paths without "." and ".." components:
\* repeated and trailing slashes are dropped.
NormPath(p) == <<"/">> \o JoinComponents(Components(p, <<>>))

\* The working directory of the process.
Cwd == <<"/">>

\* os.path.abspath(p)
AbsPath(p) == NormPath(IF IsAbs(p) THEN p ELSE Join(Cwd, p))

\* int(s) for a str of ASCII digits: None stands for ValueError.
IsDigit(c) == \E k \in 1..Len(Digits) : Digits[k] = c
DigitVal(c) == (CHOOSE k \in 1..Len(Digits) : Digits[k] = c) - 1

RECURSIVE DigitsValue(_, _)
DigitsValue(s, acc) ==
    IF s = <<>> THEN acc ELSE DigitsValue(Tail(s), 10 * acc + DigitVal(s[1]))

ParseInt(s) ==
    IF s = <<>> \/ \E k \in 1..Len(s) : ~IsDigit(s[k]) THEN None
    ELSE Some(DigitsValue(s, 0))

----------------------------------------------------------------------------
\* The directory tree read by get_names_and_labels

ImgDirs == { <<"/">>, <<"d">>, <<"/", "d", "/">> }
RootFileNames == { <<"a">>, <<"b">> }
ClassDirNames == { <<"1">>, <<"0", "7">>, <<"x">> }
ClassFileNames == { <<"f">> }
NestedDirName == <<"2">>
NestedFileName == <<"h">>

\* What a class directory may look like: absent, empty, or holding its
\* files and possibly a nested directory that is empty or holds one file.
ClassDirShapes ==
    { [present |-> FALSE, files |-> {}, nested |-> "none"],
      [present |-> TRUE, files |-> {}, nested |-> "none"] } \cup
    [present : {TRUE}, files : {ClassFileNames}, nested : {"none", "empty", "file"}]

BuildFs(top, rootfiles, shape) ==
    LET present == { d \in ClassDirNames : shape[d].present }
        withNested == { d \in present : shape[d].nested # "none" }
    IN  [ dirs |-> {top} \cup { Join(top, d) : d \in present }
                   \cup { Join(Join(top, d), NestedDirName) : d \in withNested },
          files |-> { Join(top, f) : f \in rootfiles }
                   \cup UNION { { Join(Join(top, d), f) : f \in shape[d].files } : d \in present }
                   \cup { Join(Join(Join(top, d), NestedDirName), NestedFileName) :
                            d \in { e \in withNested : shape[e].nested = "file" } } ]

PathName(p) == LET cs == Components(p, <<>>) IN cs[Len(cs)]
PathParent(p) == LET cs == Components(p, <<>>)
                 IN  <<"/">> \o JoinComponents(SubSeq(cs, 1, Len(cs) - 1))

\* The names of the entries of directory d, by kind.
ListDir(fs, d) ==
    [ dirs  |-> { PathName(p) : p \in { q \in fs.dirs : q # <<"/">> /\ q # d /\ PathParent(q) = d } },
      files |-> { PathName(p) : p \in { q \in fs.files : PathParent(q) = d } } ]

\* glob.glob(pattern_dir + '/*'): the entries of the directory, each as
\* pattern_dir + '/' + name.  (No entry name of the model starts with a dot.)
Glob(fs, pattern_dir) ==
    LET entries == ListDir(fs, NormPath(pattern_dir))
    IN  IF NormPath(pattern_dir) \notin fs.dirs THEN {}
        ELSE { pattern_dir \o <<"/">> \o n : n \in entries.dirs \cup entries.files }

\* os.walk(top), top-down: a sequence of <<root, dirs, files>>, a child being
\* visited as join(root, name).  The order among the entries of one directory
\* is the listing order of the operating system; sorted order is taken here.
RECURSIVE WalkAll(_, _, _)
Walk(fs, top, depth) ==
    IF top \notin fs.dirs THEN <<>>
    ELSE LET entries == ListDir(fs, top)
             subs == Sorted(entries.dirs)
         IN  << <<top, subs, Sorted(entries.files)>> >>
             \o (IF depth = 0 THEN <<>> ELSE WalkAll(fs, [k \in 1..Len(subs) |-> Join(top, subs[k])], depth - 1))
WalkAll(fs, tops, depth) ==
    IF tops = <<>> THEN <<>>
    ELSE Walk(fs, tops[1], depth) \o WalkAll(fs, Tail(tops), depth)

\* Deeper than any tree of the model.
WalkDepth == 4

----------------------------------------------------------------------------
\* get_names_and_labels

Modes == {"flat", "flat_targeted", "test", "test_targeted", "hierarchy", "other"}

NoDict == [isNone |-> TRUE, map |-> <<>>]
Dict(f) == [isNone |-> FALSE, map |-> f]

Result(status, ret, io) == [status |-> status, ret |-> ret, io |-> io]

\* [(f, meta_dict[f]) for f in img_names]: the first missing key raises.
RECURSIVE FlatRecords(_, _)
FlatRecords(img_names, meta_dict) ==
    IF img_names = <<>> THEN Result("ok", <<>>, <<>>)
    ELSE LET f == img_names[1]
         IN  IF f \notin DOMAIN meta_dict.map
             THEN Result("KeyError", <<>>, <<"meta_dict">>)
             ELSE LET rest == FlatRecords(Tail(img_names), meta_dict)
                  IN  Result(rest.status,
                             IF rest.status = "ok"
                             THEN << <<f, Some(meta_dict.map[f])>> >> \o rest.ret ELSE <<>>,
                             <<"meta_dict">> \o rest.io)

\* [(f, meta_dict[f], meta_target_dict[f]) for f in img_names]
RECURSIVE FlatTargetedRecords(_, _, _)
FlatTargetedRecords(img_names, meta_dict, meta_target_dict) ==
    IF img_names = <<>> THEN Result("ok", <<>>, <<>>)
    ELSE LET f == img_names[1]
         IN  IF f \notin DOMAIN meta_dict.map
             THEN Result("KeyError", <<>>, <<"meta_dict">>)
             ELSE IF f \notin DOMAIN meta_target_dict.map
             THEN Result("KeyError", <<>>, <<"meta_dict", "meta_target_dict">>)
             ELSE LET rest == FlatTargetedRecords(Tail(img_names), meta_dict, meta_target_dict)
                  IN  Result(rest.status,
                             IF rest.status = "ok"
                             THEN << <<f, Some(meta_dict.map[f]), meta_target_dict.map[f]>> >> \o rest.ret
                             ELSE <<>>,
                             <<"meta_dict", "meta_target_dict">> \o rest.io)

\* [(f, None) for f in img_names]
TestRecords(img_names) ==
    Result("ok", [k \in 1..Len(img_names) |-> <<img_names[k], None>>], <<>>)

\* [(f, None, meta_target_dict[f]) for f in img_names]
RECURSIVE TestTargetedRecords(_, _)
TestTargetedRecords(img_names, meta_target_dict) ==
    IF img_names = <<>> THEN Result("ok", <<>>, <<>>)
    ELSE LET f == img_names[1]
         IN  IF f \notin DOMAIN meta_target_dict.map
             THEN Result("KeyError", <<>>, <<"meta_target_dict">>)
             ELSE LET rest == TestTargetedRecords(Tail(img_names), meta_target_dict)
                  IN  Result(rest.status,
                             IF rest.status = "ok"
                             THEN << <<f, None, meta_target_dict.map[f]>> >> \o rest.ret ELSE <<>>,
                             <<"meta_target_dict">> \o rest.io)

\* A plausible slip: the separator after img_abs_dir is not skipped.
HierarchyLabel_KeepSeparator(root, img_abs_dir) == ParseInt(SliceFrom(root, Len(img_abs_dir)))

\* lbl = int(root[len(img_abs_dir)+1:])
HierarchyLabel(root, img_abs_dir) == ParseInt(SliceFrom(root, Len(img_abs_dir) + 1))

\* The loop over os.walk(img_abs_dir): the first directory whose relative
\* path is not an integer raises ValueError.
RECURSIVE HierarchyRecords(_, _)
HierarchyRecords(walked, img_abs_dir) ==
    IF walked = <<>> THEN Result("ok", <<>>, <<>>)
    ELSE LET root == walked[1][1]
             files == walked[1][3]
         IN  IF root = img_abs_dir THEN HierarchyRecords(Tail(walked), img_abs_dir)
             ELSE LET lbl == HierarchyLabel(root, img_abs_dir)
                  IN  IF IsNone(lbl) THEN Result("ValueError", <<>>, <<>>)
                      ELSE LET rest == HierarchyRecords(Tail(walked), img_abs_dir)
                           IN  Result(rest.status,
                                      IF rest.status = "ok"
                                      THEN [k \in 1..Len(files) |-> <<Join(root, files[k]), lbl>>] \o rest.ret
                                      ELSE <<>>,
                                      <<>>)

WithIo(io, res) == Result(res.status, res.ret, io \o res.io)

\* A plausible slip: 'test_targeted' does not check its target map.
RequiredMapsGiven_TestTargetedUnchecked(mode, meta_dict, meta_target_dict) ==
    CASE mode = "flat" -> ~meta_dict.isNone
      [] mode = "flat_targeted" -> ~meta_dict.isNone /\ ~meta_target_dict.isNone
      [] OTHER -> TRUE

\* The assert statements at the head of each branch.
RequiredMapsGiven(mode, meta_dict, meta_target_dict) ==
    CASE mode = "flat" -> ~meta_dict.isNone
      [] mode = "flat_targeted" -> ~meta_dict.isNone /\ ~meta_target_dict.isNone
      [] mode = "test_targeted" -> ~meta_target_dict.isNone
      [] OTHER -> TRUE

get_names_and_labels(fs, img_dir, mode, meta_dict, meta_target_dict) ==
    LET img_abs_dir == AbsPath(img_dir)
        img_names == Sorted(Glob(fs, img_abs_dir))
    IN  IF mode \notin {"flat", "flat_targeted", "test", "test_targeted", "hierarchy"}
        THEN Result("NotImplementedError", <<>>, <<>>)
        ELSE IF ~RequiredMapsGiven(mode, meta_dict, meta_target_dict)
        THEN Result("AssertionError", <<>>, <<>>)
        ELSE CASE mode = "flat" ->
                    WithIo(<<"glob">>, FlatRecords(img_names, meta_dict))
               [] mode = "flat_targeted" ->
                    WithIo(<<"glob">>, FlatTargetedRecords(img_names, meta_dict, meta_target_dict))
               [] mode = "test" -> WithIo(<<"glob">>, TestRecords(img_names))
               [] mode = "test_targeted" ->
                    WithIo(<<"glob">>, TestTargetedRecords(img_names, meta_target_dict))
               [] mode = "hierarchy" ->
                    WithIo(<<"walk">>, HierarchyRecords(Walk(fs, img_abs_dir, WalkDepth), img_abs_dir))

\* The label and target maps a caller may pass: none, one with a key for
\* every listed path, or one that lacks the first listed path.
MapValue(p) == Ord(p[Len(p)]) % 10
CallerDicts(fs, img_dir) ==
    LET keys == Glob(fs, AbsPath(img_dir))
        full == [p \in keys |-> MapValue(p)]
    IN  {NoDict, Dict(full)} \cup
        (IF keys = {} THEN {}
         ELSE { Dict([p \in keys \ {Sorted(keys)[1]} |-> MapValue(p)]) })

r_Idle ==
    /\ r_img_dir = <<"/">>
    /\ r_fs = [dirs |-> {}, files |-> {}]
    /\ r_call = None
    /\ r_result = None
    /\ r_io = None

r_Init ==
    /\ r_img_dir \in ImgDirs
    /\ \E rootfiles \in SUBSET RootFileNames, shape \in [ClassDirNames -> ClassDirShapes] :
          r_fs = BuildFs(AbsPath(r_img_dir), rootfiles, shape)
    /\ r_call = None
    /\ r_result = None
    /\ r_io = None

\* One call per behaviour: the function reads the tree and changes nothing.
GetNamesAndLabels ==
    /\ IsNone(r_call)
    /\ \E mode \in Modes, meta_dict \in CallerDicts(r_fs, r_img_dir),
       meta_target_dict \in CallerDicts(r_fs, r_img_dir) :
        LET res == get_names_and_labels(r_fs, r_img_dir, mode, meta_dict, meta_target_dict)
        IN  /\ r_call' = Some([mode |-> mode, meta_dict |-> meta_dict,
                               meta_target_dict |-> meta_target_dict])
            /\ r_result' = Some([status |-> res.status, ret |-> res.ret])
            /\ r_io' = res.io
            /\ UNCHANGED <<r_img_dir, r_fs>>

----------------------------------------------------------------------------
\* initialize_hierarchy

\* range(1000): the class directories '0' .. '999'
NUM_CLASS_DIRS == 1000

\* What may be found at a path: nothing, a directory, a regular file, or a
\* symbolic link to nothing (os.path.exists is False, yet mkdir fails).
Kinds == {"absent", "dir", "file", "broken_link"}

Exists(kind) == kind \in {"dir", "file"}
IsDir(kind) == kind = "dir"

\* os.mkdir(path)
Mkdir(kind) ==
    IF kind = "absent" THEN [status |-> "ok", kind |-> "dir"]
    ELSE [status |-> "FileExistsError", kind |-> kind]

\* A plausible slip: the directory is made without looking first.
EnsureDir_NoExistsCheck(kind) == Mkdir(kind)

\* if not os.path.exists(p): os.mkdir(p)
\* else: if not os.path.isdir(p): raise FileExistsError
EnsureDir(kind) ==
    IF ~Exists(kind) THEN Mkdir(kind)
    ELSE IF ~IsDir(kind) THEN [status |-> "FileExistsError", kind |-> kind]
    ELSE [status |-> "ok", kind |-> kind]

\* for i in range(1000): ...   The loop stops at the first class directory
\* that raises; the directories before it have been made.
ClassDirLoop(cls) ==
    LET failing == { i \in 1..NUM_CLASS_DIRS : EnsureDir(cls[i]).status # "ok" }
        stop == IF failing = {} THEN NUM_CLASS_DIRS + 1
                ELSE CHOOSE i \in failing : \A j \in failing : i <= j
    IN  [ status |-> IF failing = {} THEN "ok" ELSE EnsureDir(cls[stop]).status,
          cls |-> [i \in 1..NUM_CLASS_DIRS |-> IF i < stop THEN EnsureDir(cls[i]).kind ELSE cls[i]] ]

\* fs.tgt is the kind of tgt_dir; fs.cls[i+1] is the kind of tgt_dir/str(i).
initialize_hierarchy(fs) ==
    LET top == EnsureDir(fs.tgt)
    IN  IF top.status # "ok" THEN [status |-> top.status, fs |-> fs]
        ELSE LET loop == ClassDirLoop(fs.cls)
             IN  [status |-> loop.status, fs |-> [tgt |-> top.kind, cls |-> loop.cls]]

\* Class directories that may be there before the first call: the first
\* MaxPreexisting ones and the last one.
MaxPreexisting == 3
PreexistingDirs == (1..MaxPreexisting) \cup {NUM_CLASS_DIRS}

h_Idle ==
    /\ h_fs = [tgt |-> "absent", cls |-> <<>>]
    /\ h_result = "none"
    /\ h_prev = None

h_Init ==
    /\ \E tgt \in Kinds, pre \in [PreexistingDirs -> Kinds] :
          /\ tgt # "dir" => \A i \in PreexistingDirs : pre[i] = "absent"
          /\ h_fs = [tgt |-> tgt,
                     cls |-> [i \in 1..NUM_CLASS_DIRS |->
                                IF i \in PreexistingDirs THEN pre[i] ELSE "absent"]]
    /\ h_result = "none"
    /\ h_prev = None

InitializeHierarchy ==
    LET res == initialize_hierarchy(h_fs)
    IN  /\ h_prev' = Some([fs |-> h_fs, result |-> h_result])
        /\ h_fs' = res.fs
        /\ h_result' = res.status

----------------------------------------------------------------------------
\* Images and arrays

\* Height and width of the image files of the model.
ImgH == 1
ImgW == 2

RECURSIVE SumOrd(_)
SumOrd(p) == IF p = <<>> THEN 0 ELSE Ord(p[1]) + SumOrd(Tail(p))

\* load_image_to_float_array(fname): the decoder is a function of the file;
\* here pixel k of the file at fname is a value in 0..255 fixed by fname and k.
load_image_to_float_array(fname) ==
    [ shape |-> <<ImgH, ImgW>>,
      data |-> [k \in 1..(ImgH * ImgW) |-> (7 * SumOrd(fname) + 3 * k) % 256] ]

\* np.array(list_of_arrays, dtype=float): the arrays stacked along a new
\* first axis; an empty list gives shape (0,).
NpStack(arrs) ==
    IF arrs = <<>> THEN [shape |-> <<0>>, data |-> <<>>]
    ELSE [ shape |-> <<Len(arrs)>> \o arrs[1].shape,
           data |-> Concat([k \in 1..Len(arrs) |-> arrs[k].data]) ]

\* np.array(list_of_scalars)
NpVector(xs) == [shape |-> <<Len(xs)>>, data |-> xs]

\* arr[i:j, ...]: rows i .. j-1 along the first axis
NpRows(arr, i, j) ==
    LET row == Prod(Tail(arr.shape))
        lo == Min(i, arr.shape[1])
        hi == Min(j, arr.shape[1])
        n == IF hi > lo THEN hi - lo ELSE 0
    IN  [ shape |-> <<n>> \o Tail(arr.shape),
          data |-> Slice(arr.data, lo * row, (lo + n) * row) ]

\* Pool(4).map(load_image_to_float_array, names): results in the order of names
PoolMapLoad(names) == [k \in 1..Len(names) |-> load_image_to_float_array(names[k])]

\* A plausible slip: the buffer is sized by the first axis only.
nparray_to_rawarray_FirstAxis(arr) ==
    [ctype |-> "c_double", data |-> [k \in 1..arr.shape[1] |-> arr.data[k]]]

\* nparray_to_rawarray(arr): a flat buffer of prod(arr.shape) doubles, filled
\* through a view of arr's shape, that is in row-major order.  The RawArray
\* returned carries a length and no shape.
nparray_to_rawarray(arr) ==
    [ctype |-> "c_double", data |-> [k \in 1..Prod(arr.shape) |-> arr.data[k]]]

\* The shape a consumer sees: arr.shape of an ndarray, (len,) of a RawArray.
ShapeOf(a) == IF "shape" \in DOMAIN a THEN a.shape ELSE <<Len(a.data)>>

----------------------------------------------------------------------------
\* load_images_into_batches

\* np.ones((index_limit, 1000)) * 1e-5 with [i, target_i] = 0.99001
NUM_TARGET_CLASSES == 1000
TGT_OFF == 1
TGT_ON == 99001

TargetRows(targets) ==
    [ shape |-> <<Len(targets), NUM_TARGET_CLASSES>>,
      data |-> [k \in 1..(Len(targets) * NUM_TARGET_CLASSES) |->
                  IF (k - 1) % NUM_TARGET_CLASSES = targets[((k - 1) \div NUM_TARGET_CLASSES) + 1]
                  THEN TGT_ON ELSE TGT_OFF] ]

\* A plausible slip: the window ends one record early.
BatchEnd_OffByOne(batch_start, size) == batch_start + size - 1

\* batch_start + batch_size, the end of the slices of one batch
BatchEnd(batch_start, size) == batch_start + size

\* One tuple of the returned list.
BatchAt(img_names, imgs, img_labels, tgt_lbls, batch_start, size, to_buffer) ==
    LET stop == BatchEnd(batch_start, size)
        images == NpRows(imgs, batch_start, stop)
    IN  [ names |-> Slice(img_names, batch_start, stop),
          images |-> IF to_buffer THEN nparray_to_rawarray(images) ELSE images,
          labels |-> NpRows(img_labels, batch_start, stop),
          targets |-> IF IsNone(tgt_lbls) THEN None
                      ELSE LET rows == NpRows(Val(tgt_lbls), batch_start, stop)
                           IN  Some(IF to_buffer THEN nparray_to_rawarray(rows) ELSE rows) ]

\* The conditional expression of line 135 reads index_limit, which is not
\* yet bound, whenever max_samples is not None.
load_images_into_batches(info, size, limit, to_buffer) ==
    IF ~IsNone(limit) THEN [status |-> "UnboundLocalError", batches |-> <<>>]
    ELSE IF info = <<>> THEN [status |-> "IndexError", batches |-> <<>>]
    ELSE
      LET num_imgs == Len(info)
          index_limit == num_imgs
          is_targeted == Len(info[1]) = 3
          selected == Slice(info, 0, index_limit)
          img_names == [k \in 1..Len(selected) |-> selected[k][1]]
          img_lbls == NpVector([k \in 1..Len(selected) |-> selected[k][2]])
          tgt_lbls == IF is_targeted
                      THEN Some(TargetRows([k \in 1..Len(selected) |-> selected[k][3]]))
                      ELSE None
          imgs == NpStack(PoolMapLoad(Slice(img_names, 0, index_limit)))
          img_labels == NpRows(img_lbls, 0, index_limit)
          starts == Range(index_limit, size)
      IN  [ status |-> "ok",
            batches |-> [k \in 1..Len(starts) |->
                           BatchAt(img_names, imgs, img_labels, tgt_lbls, starts[k], size, to_buffer)] ]

\* The record lists of the model: some of the files /d/a, /d/b, ... in
\* sorted order, all of one kind (the kinds get_names_and_labels produces).
MaxRecords == 3
MaxBatchSize == 3
MaxSamples == 4

RecordPath(i) == <<"/", "d", "/", Letters[i]>>
RecordLabel(i) == 10 + i
RecordTarget(i) == IF i = 1 THEN 0 ELSE IF i = 2 THEN NUM_TARGET_CLASSES - 1 ELSE 3 * i
RecordKinds == {"flat", "flat_targeted", "test", "test_targeted"}

RecordOf(i, kind) ==
    LET lbl == IF kind \in {"flat", "flat_targeted"} THEN Some(RecordLabel(i)) ELSE None
    IN  IF kind \in {"flat_targeted", "test_targeted"}
        THEN <<RecordPath(i), lbl, RecordTarget(i)>>
        ELSE <<RecordPath(i), lbl>>

RECURSIVE Ascending(_)
Ascending(S) ==
    IF S = {} THEN <<>>
    ELSE LET m == CHOOSE x \in S : \A y \in S : x <= y
         IN  <<m>> \o Ascending(S \ {m})

RecordLists ==
    { [k \in 1..Cardinality(S) |-> RecordOf(Ascending(S)[k], kind)] :
        S \in SUBSET (1..MaxRecords), kind \in RecordKinds }

in_Idle ==
    /\ imgs_info = <<>>
    /\ batch_size = 1
    /\ max_samples = None

in_Init ==
    /\ imgs_info \in RecordLists
    /\ batch_size \in 1..MaxBatchSize
    /\ max_samples \in {None} \cup { Some(m) : m \in 0..MaxSamples }

b_Idle ==
    /\ out_arrays = None
    /\ out_buffers = None

\* load_images_into_batches(imgs_info, batch_size, max_samples, to_buffer=False)
LoadArrays ==
    /\ out_arrays' = Some(load_images_into_batches(imgs_info, batch_size, max_samples, FALSE))
    /\ UNCHANGED out_buffers

\* load_images_into_batches(imgs_info, batch_size, max_samples, to_buffer=True)
LoadBuffers ==
    /\ out_buffers' = Some(load_images_into_batches(imgs_info, batch_size, max_samples, TRUE))
    /\ UNCHANGED out_arrays

----------------------------------------------------------------------------
\* image_generator

\* The input_dir argument: the directory of the record paths.
InputDir == <<"/", "d">>
\* The adv_dir argument, when given.
AdvDirs == { <<"/", "o">> }

\* index_limit = num_imgs; if max_samples is not None: min(max_samples, index_limit)
IndexLimit(info, limit) ==
    IF IsNone(limit) THEN Len(info) ELSE Min(Val(limit), Len(info))

\* A plausible slip: the slice is not capped by the window.
WindowEnd_Uncapped(index_limit, i, size) == i + size

\* min(index_limit, idx+batch_size), the end of the slices of one step
WindowEnd(index_limit, i, size) == Min(index_limit, i + size)

\* A plausible slip: the running total is not cleared on wrap-around.
Advance_KeepTotal(i, t, size, index_limit) ==
    IF i + size >= index_limit THEN [idx |-> 0, total |-> t]
    ELSE [idx |-> i + size, total |-> t]

\* A plausible slip: the position is clamped to the end instead of wrapped.
Advance_Clamp(i, t, size, index_limit) ==
    IF i + size >= index_limit THEN [idx |-> index_limit, total |-> 0]
    ELSE [idx |-> i + size, total |-> t]

\* The code after the yield: idx += batch_size; if idx >= index_limit:
\* total = 0; idx = 0
Advance(i, t, size, index_limit) ==
    IF i + size >= index_limit THEN [idx |-> 0, total |-> 0]
    ELSE [idx |-> i + size, total |-> t]

\* os.path.join(adv_dir_abs, f[len(base_dir_abs)+1:])
AdvPath(adv_dir_abs, base_dir_abs, f) ==
    Join(adv_dir_abs, SliceFrom(f, Len(base_dir_abs) + 1))

\* One pass of the loop body up to the yield, from position i and total t.
LoopBody(info, size, limit, adv, i, t) ==
    LET is_targeted == Len(info[1]) = 3
        img_names == [k \in 1..Len(info) |-> info[k][1]]
        img_lbls == NpVector([k \in 1..Len(info) |-> info[k][2]])
        index_limit == IndexLimit(info, limit)
        stop == WindowEnd(index_limit, i, size)
        names_list == Slice(img_names, i, stop)
        imgs == NpStack(PoolMapLoad(names_list))
        new_total == t + imgs.shape[1]
    IN  [ total |-> new_total,
          names |-> names_list,
          imgs |-> imgs,
          labels |-> NpRows(img_lbls, i, stop),
          targets |-> IF is_targeted
                      THEN Some(NpRows(NpVector([k \in 1..Len(info) |-> info[k][3]]), i, stop))
                      ELSE None,
          adv_imgs |-> IF IsNone(adv) THEN None
                       ELSE Some(NpStack(PoolMapLoad(
                              [k \in 1..Len(names_list) |->
                                 AdvPath(AbsPath(Val(adv)), AbsPath(InputDir), names_list[k])]))) ]

\* The window the generator is meant to cycle over.
WindowSize == IF IsNone(max_samples) THEN Len(imgs_info)
              ELSE IF Val(max_samples) < Len(imgs_info) THEN Val(max_samples)
              ELSE Len(imgs_info)

g_Idle ==
    /\ adv_dir = None
    /\ g_pc = "start"
    /\ idx = 0
    /\ total = 0
    /\ g_yield = None
    /\ cycle_count = 0
    /\ g_tick = 0
    /\ g_wrapped = FALSE

g_Init ==
    /\ adv_dir \in {None} \cup { Some(a) : a \in AdvDirs }
    /\ g_pc = "start"
    /\ idx = 0
    /\ total = 0
    /\ g_yield = None
    /\ cycle_count = 0
    /\ g_tick = 0
    /\ g_wrapped = FALSE

\* next(generator).  The first call runs the prelude (which raises IndexError
\* on an empty record list, ending the generator) and the loop body up to the
\* yield; a later call resumes after the yield.
GenNext ==
    /\ g_pc # "raised"
    /\ IF imgs_info = <<>>
       THEN /\ g_pc' = "raised"
            /\ UNCHANGED <<adv_dir, idx, total, g_yield, cycle_count, g_tick, g_wrapped>>
       ELSE LET at == IF g_pc = "start" THEN [idx |-> 0, total |-> 0]
                      ELSE Advance(idx, total, batch_size, IndexLimit(imgs_info, max_samples))
                ret == LoopBody(imgs_info, batch_size, max_samples, adv_dir, at.idx, at.total)
            IN  /\ g_pc' = "yielded"
                /\ idx' = at.idx
                /\ total' = ret.total
                /\ g_yield' = Some(ret)
                /\ cycle_count' = (IF cycle_count >= WindowSize THEN 0 ELSE cycle_count)
                                  + Len(ret.names)
                /\ g_tick' = 1 - g_tick
                /\ g_wrapped' = (g_wrapped \/ (g_pc = "yielded" /\ cycle_count >= WindowSize))
                /\ UNCHANGED adv_dir

----------------------------------------------------------------------------
\* save_images

OutputDir == <<"/", "o">>
FileNames == { <<"a">>, <<"b">> }
MaxImages == 3
MaxFilenames == 3

RECURSIVE SeqsUpTo(_, _)
SeqsUpTo(S, n) ==
    IF n = 0 THEN { <<>> }
    ELSE LET shorter == SeqsUpTo(S, n - 1)
         IN  shorter \cup { Append(q, x) : q \in { r \in shorter : Len(r) = n - 1 }, x \in S }

\* A plausible slip: one task per image instead of one per filename.
StarmapArgs_PerImage(n_images, filenames, output_dir) ==
    IF Len(filenames) < n_images /\ Len(filenames) > 0
    THEN [ status |-> "ok",
           tasks |-> [k \in 1..n_images |->
                        <<k - 1, Join(output_dir, filenames[Min(k, Len(filenames))])>>] ]
    ELSE [ status |-> "ok",
           tasks |-> [k \in 1..Min(n_images, Len(filenames)) |->
                        <<k - 1, Join(output_dir, filenames[k])>>] ]

\* [(images[i,...], os.path.join(output_dir, filename))
\*  for i, filename in enumerate(filenames)]
\* images[i] raises IndexError once i reaches the number of images; an image
\* is named here by its index.
StarmapArgs(n_images, filenames, output_dir) ==
    IF Len(filenames) > n_images THEN [status |-> "IndexError", tasks |-> <<>>]
    ELSE [ status |-> "ok",
           tasks |-> [k \in 1..Len(filenames) |-> <<k - 1, Join(output_dir, filenames[k])>>] ]

s_Idle ==
    /\ s_call = None
    /\ s_tasks = <<>>
    /\ s_out = <<>>
    /\ s_result = "none"

s_Init == s_Idle

\* save_images(images, filenames, output_dir).  The two workers of the pool
\* run the tasks concurrently: when several tasks name the same path, any of
\* their images may be the one the file holds in the end.
SaveImages ==
    \E n_images \in 0..MaxImages, filenames \in SeqsUpTo(FileNames, MaxFilenames) :
        LET args == StarmapArgs(n_images, filenames, OutputDir)
            paths == { args.tasks[k][2] : k \in 1..Len(args.tasks) }
        IN  /\ s_call' = Some([n_images |-> n_images, filenames |-> filenames])
            /\ s_result' = args.status
            /\ s_tasks' = args.tasks
            /\ \E winner \in [paths -> 0..MaxImages] :
                  /\ \A q \in paths : \E k \in 1..Len(args.tasks) :
                        args.tasks[k] = <<winner[q], q>>
                  /\ s_out' = [q \in (DOMAIN s_out) \cup paths |->
                                 IF q \in paths THEN winner[q] ELSE s_out[q]]

----------------------------------------------------------------------------
\* Specifications, one per component; the other components stay idle.

InitResolve == r_Init /\ h_Idle /\ in_Idle /\ b_Idle /\ g_Idle /\ s_Idle
NextResolve == GetNamesAndLabels /\ UNCHANGED <<h_vars, in_vars, b_vars, g_vars, s_vars>>
SpecResolve == InitResolve /\ [][NextResolve]_vars

InitHierarchy == h_Init /\ r_Idle /\ in_Idle /\ b_Idle /\ g_Idle /\ s_Idle
NextHierarchy == InitializeHierarchy /\ UNCHANGED <<r_vars, in_vars, b_vars, g_vars, s_vars>>
SpecHierarchy == InitHierarchy /\ [][NextHierarchy]_vars

InitBatches == in_Init /\ b_Idle /\ r_Idle /\ h_Idle /\ g_Idle /\ s_Idle
NextBatches ==
    \/ LoadArrays /\ UNCHANGED <<r_vars, h_vars, in_vars, g_vars, s_vars>>
    \/ LoadBuffers /\ UNCHANGED <<r_vars, h_vars, in_vars, g_vars, s_vars>>
SpecBatches == InitBatches /\ [][NextBatches]_vars

InitGenerator == in_Init /\ g_Init /\ b_Idle /\ r_Idle /\ h_Idle /\ s_Idle
NextGenerator == GenNext /\ UNCHANGED <<r_vars, h_vars, in_vars, b_vars, s_vars>>
SpecGenerator == InitGenerator /\ [][NextGenerator]_vars
\* The consumer keeps pulling: a next() that can be made is eventually made.
\* Pull is what every GenNext step does to g_pc and g_tick, and it is enabled
\* exactly when GenNext is, so that weak fairness of Pull within
\* SpecGenerator is weak fairness of GenNext.
Pull ==
    /\ g_pc # "raised"
    /\ g_pc' = (IF imgs_info = <<>> THEN "raised" ELSE "yielded")
    /\ g_tick' = (IF imgs_info = <<>> THEN g_tick ELSE 1 - g_tick)
FairSpecGenerator == SpecGenerator /\ WF_<<g_pc, g_tick>>(Pull)

InitSave == s_Init /\ r_Idle /\ h_Idle /\ in_Idle /\ b_Idle /\ g_Idle
NextSave == SaveImages /\ UNCHANGED <<r_vars, h_vars, in_vars, b_vars, g_vars>>
SpecSave == InitSave /\ [][NextSave]_vars

Init == InitResolve
Next == NextResolve
Spec == SpecResolve

----------------------------------------------------------------------------
\* Claims about get_names_and_labels (SpecResolve)

TopDir == AbsPath(r_img_dir)
Called(mode) == ~IsNone(r_call) /\ Val(r_call).mode = mode
Records == { Val(r_result).ret[k] : k \in 1..Len(Val(r_result).ret) }
SubdirNames == ListDir(r_fs, TopDir).dirs
IntegerNamed == \A d \in SubdirNames : ~IsNone(ParseInt(d))
IsPrefix(a, b) == Len(a) <= Len(b) /\ SubSeq(b, 1, Len(a)) = a
\* The files anywhere below the immediate subdirectory d of img_dir.
FilesUnder(d) ==
    { p \in r_fs.files :
        IsPrefix(Components(TopDir, <<>>) \o <<d>>, Components(p, <<>>)) }
NoNestedDirs ==
    \A q \in r_fs.dirs : q = TopDir \/ (q # <<"/">> /\ PathParent(q) = TopDir)

\* C9 as stated: in 'hierarchy' mode, whenever the immediate subdirectories
\* of img_dir have integer names, the call returns, every file under such a
\* subdirectory is a record labelled with the integer name of that
\* subdirectory, and no file lying directly in img_dir is a record.
C9_Original ==
    Called("hierarchy") /\ IntegerNamed =>
        /\ Val(r_result).status = "ok"
        /\ \A d \in SubdirNames : \A p \in FilesUnder(d) :
              <<p, ParseInt(d)>> \in Records
        /\ \A rec \in Records : PathParent(rec[1]) # TopDir

\* C9 as amended: the same, for trees in which the integer-named
\* subdirectories hold files only and img_dir is not the root directory;
\* the records are then exactly those files.
C9_HierarchyLabels ==
    Called("hierarchy") /\ IntegerNamed /\ NoNestedDirs /\ TopDir # <<"/">> =>
        /\ Val(r_result).status = "ok"
        /\ Records =
             { << TopDir \o <<"/">> \o d \o <<"/">> \o f, ParseInt(d) >> :
                 d \in SubdirNames, f \in ClassFileNames } \cap
             { << p, l >> : p \in r_fs.files, l \in { ParseInt(d) : d \in SubdirNames } }
        /\ Len(Val(r_result).ret) = Cardinality(Records)
        /\ \A rec \in Records : PathParent(rec[1]) # TopDir

C9_Witness ==
    /\ Called("hierarchy") /\ IntegerNamed /\ NoNestedDirs /\ TopDir # <<"/">>
    /\ Val(r_result).status = "ok"
    /\ \E rec \in Records : rec[2] = Some(7)
    /\ \E rec \in Records : rec[2] = Some(1)
    /\ \E p \in r_fs.files : PathParent(p) = TopDir

\* The call lacks a map that its mode requires.
MapMissing ==
    LET c == Val(r_call)
    IN  \/ c.mode = "flat" /\ c.meta_dict.isNone
        \/ c.mode = "flat_targeted" /\ (c.meta_dict.isNone \/ c.meta_target_dict.isNone)
        \/ c.mode = "test_targeted" /\ c.meta_target_dict.isNone

\* C10: a call that lacks a map its mode requires, or names a mode that is
\* not one of the five, fails before any listing or lookup is performed;
\* 'test' needs no map and 'test_targeted' needs no label map.
C10_ConfigErrorsBeforeIo ==
    ~IsNone(r_call) =>
        LET c == Val(r_call)
            res == Val(r_result)
        IN  /\ MapMissing => res.status = "AssertionError" /\ r_io = <<>>
            /\ c.mode \notin {"flat", "flat_targeted", "test", "test_targeted", "hierarchy"}
                 => res.status = "NotImplementedError" /\ r_io = <<>>
            /\ c.mode = "test" => res.status = "ok" /\ r_io # <<>>
            /\ c.mode = "test_targeted" /\ ~c.meta_target_dict.isNone /\ c.meta_dict.isNone
                 /\ DOMAIN c.meta_target_dict.map = Glob(r_fs, TopDir)
                 => res.status = "ok" /\ r_io # <<>>

C10_Witness ==
    /\ Called("test_targeted")
    /\ Val(r_call).meta_target_dict.isNone
    /\ ~Val(r_call).meta_dict.isNone
    /\ Glob(r_fs, TopDir) # {}
    /\ Val(r_result).status = "AssertionError"
    /\ r_io = <<>>

----------------------------------------------------------------------------
\* Claims about initialize_hierarchy (SpecHierarchy)

AllDirectories(fs) ==
    /\ fs.tgt = "dir"
    /\ Len(fs.cls) = NUM_CLASS_DIRS
    /\ \A i \in 1..NUM_CLASS_DIRS : fs.cls[i] = "dir"

\* C7: after a call that succeeds, tgt_dir and its subdirectories '0'..'999'
\* are all directories, and the call that follows a successful call succeeds
\* too and leaves every path as it found it.
C7_Idempotent ==
    /\ h_result = "ok" => AllDirectories(h_fs)
    /\ ~IsNone(h_prev) /\ Val(h_prev).result = "ok" =>
          /\ h_result = "ok"
          /\ h_fs = Val(h_prev).fs

\* A call made right after a call that succeeded.
C7_Witness ==
    /\ ~IsNone(h_prev)
    /\ Val(h_prev).result = "ok"
    /\ h_result = "ok"
    /\ AllDirectories(h_fs)

----------------------------------------------------------------------------
\* Claims about save_images (SpecSave)

FewerNamesThanImages ==
    ~IsNone(s_call) /\ Len(Val(s_call).filenames) < Val(s_call).n_images

\* C8: with fewer filenames than images the call raises nothing and hands
\* out exactly len(filenames) writes: image i goes to output_dir/filenames[i]
\* for every i < len(filenames), and no image of index >= len(filenames) is
\* written.  With distinct filenames that is len(filenames) files.
C8_TruncatesToFilenames ==
    FewerNamesThanImages =>
        LET filenames == Val(s_call).filenames
            written == { s_tasks[k][2] : k \in 1..Len(s_tasks) }
        IN  /\ s_result = "ok"
            /\ Len(s_tasks) = Len(filenames)
            /\ \A k \in 1..Len(filenames) :
                  s_tasks[k] = <<k - 1, OutputDir \o <<"/">> \o filenames[k]>>
            /\ \A k \in 1..Len(s_tasks) : s_tasks[k][1] < Len(filenames)
            /\ \A q \in written :
                  /\ q \in DOMAIN s_out
                  /\ \E k \in 1..Len(filenames) :
                        /\ q = OutputDir \o <<"/">> \o filenames[k]
                        /\ s_out[q] = k - 1
            /\ (\A j, k \in 1..Len(filenames) : filenames[j] = filenames[k] => j = k)
                  => Cardinality(written) = Len(filenames)

C8_Witness ==
    /\ FewerNamesThanImages
    /\ Len(Val(s_call).filenames) = 2
    /\ Val(s_call).filenames[1] # Val(s_call).filenames[2]
    /\ Val(s_call).n_images = 3
    /\ s_result = "ok"
    /\ Len(s_tasks) = 2

----------------------------------------------------------------------------
\* Claims about load_images_into_batches (SpecBatches)

NumRecords == Len(imgs_info)
RecordPaths == [k \in 1..NumRecords |-> imgs_info[k][1]]
Targeted == NumRecords >= 1 /\ Len(imgs_info[1]) = 3
CeilDiv(n, b) == (n + b - 1) \div b
BatchNames(res) == Concat([k \in 1..Len(res.batches) |-> res.batches[k].names])

\* C1 as stated: on a non-empty record list the call does not fail, and its
\* batches cover the first min(max_samples, n) records, or all n records when
\* max_samples is None.
C1_Original ==
    \A out \in {out_arrays, out_buffers} :
        ~IsNone(out) /\ NumRecords >= 1 =>
            /\ Val(out).status = "ok"
            /\ BatchNames(Val(out)) =
                 SubSeq(RecordPaths, 1,
                        IF IsNone(max_samples) THEN NumRecords
                        ELSE IF Val(max_samples) < NumRecords THEN Val(max_samples)
                        ELSE NumRecords)

\* Row i of the target distribution of a record whose target class is t:
\* 0.99001 at index t and 1e-5 at the 999 other indices.
IsTargetRow(data, i, t) ==
    \A j \in 0..(NUM_TARGET_CLASSES - 1) :
        data[(i - 1) * NUM_TARGET_CLASSES + j + 1] = (IF j = t THEN 99001 ELSE 1)

\* Batch k (counted from 1) holds the records lo+1 .. hi of the list.
HoldsRecords(batch, lo, hi, with_shape) ==
    LET n == hi - lo
    IN  /\ batch.names = [i \in 1..n |-> imgs_info[lo + i][1]]
        /\ batch.labels = [shape |-> <<n>>, data |-> [i \in 1..n |-> imgs_info[lo + i][2]]]
        /\ Len(batch.images.data) = n * ImgH * ImgW
        /\ \A i \in 1..n : \A px \in 1..(ImgH * ImgW) :
              batch.images.data[(i - 1) * ImgH * ImgW + px]
                = load_image_to_float_array(imgs_info[lo + i][1]).data[px]
        /\ with_shape => batch.images.shape = <<n, ImgH, ImgW>>
        /\ IF Targeted
           THEN /\ ~IsNone(batch.targets)
                /\ Len(Val(batch.targets).data) = n * NUM_TARGET_CLASSES
                /\ \A i \in 1..n : IsTargetRow(Val(batch.targets).data, i, imgs_info[lo + i][3])
                /\ with_shape => Val(batch.targets).shape = <<n, NUM_TARGET_CLASSES>>
           ELSE IsNone(batch.targets)

Partitioned(res, with_shape) ==
    /\ res.status = "ok"
    /\ Len(res.batches) = CeilDiv(NumRecords, batch_size)
    /\ \A k \in 1..Len(res.batches) :
          LET lo == (k - 1) * batch_size
              hi == IF k * batch_size < NumRecords THEN k * batch_size ELSE NumRecords
          IN  /\ HoldsRecords(res.batches[k], lo, hi, with_shape)
              /\ Len(res.batches[k].names) <= batch_size
              /\ k < Len(res.batches) => Len(res.batches[k].names) = batch_size
    /\ BatchNames(res) = RecordPaths

\* C2: with n >= 1 records, batch_size b >= 1 and max_samples None the call
\* returns ceil(n/b) batches; batch k holds the names, images, labels (and
\* target rows when targeted) of records k*b .. min(n,(k+1)*b)-1 in order;
\* every batch but possibly the last has size b; names, images, labels and
\* target rows of a batch have the same length; the names of the batches put
\* end to end are the record paths.  (The lengths of the image and target
\* fields are those of the arrays of the default to_buffer=False; with
\* to_buffer=True the same records and elements are held in flat buffers.)
C2_Partition ==
    NumRecords >= 1 /\ IsNone(max_samples) =>
        /\ ~IsNone(out_arrays) => Partitioned(Val(out_arrays), TRUE)
        /\ ~IsNone(out_buffers) => Partitioned(Val(out_buffers), FALSE)

C2_Witness ==
    /\ ~IsNone(out_arrays) /\ ~IsNone(out_buffers)
    /\ IsNone(max_samples)
    /\ Targeted
    /\ NumRecords = 3 /\ batch_size = 2
    /\ Len(Val(out_arrays).batches) = 2
    /\ Len(Val(out_arrays).batches[2].names) = 1

BothLoaded ==
    /\ ~IsNone(out_arrays) /\ ~IsNone(out_buffers)
    /\ Val(out_arrays).status = "ok" /\ Val(out_buffers).status = "ok"

\* C3 as stated: batch by batch, the images (and target distribution) made
\* with to_buffer=True have the element values, in order, and the shape of
\* those made with to_buffer=False.
C3_Original ==
    BothLoaded =>
        /\ Len(Val(out_buffers).batches) = Len(Val(out_arrays).batches)
        /\ \A k \in 1..Len(Val(out_arrays).batches) :
              LET a == Val(out_arrays).batches[k]
                  b == Val(out_buffers).batches[k]
              IN  /\ b.images.data = a.images.data
                  /\ ShapeOf(b.images) = ShapeOf(a.images)
                  /\ IsNone(a.targets) = IsNone(b.targets)
                  /\ ~IsNone(a.targets) =>
                        /\ Val(b.targets).data = Val(a.targets).data
                        /\ ShapeOf(Val(b.targets)) = ShapeOf(Val(a.targets))

\* C3 as amended: the buffers hold the same element values in the same
\* (row-major) order and as many of them as the arrays, as doubles; a buffer
\* is flat, its length being the product of the array's shape.
C3_SameElements ==
    BothLoaded =>
        /\ Len(Val(out_buffers).batches) = Len(Val(out_arrays).batches)
        /\ \A k \in 1..Len(Val(out_arrays).batches) :
              LET a == Val(out_arrays).batches[k]
                  b == Val(out_buffers).batches[k]
              IN  /\ b.names = a.names /\ b.labels = a.labels
                  /\ b.images.data = a.images.data
                  /\ b.images.ctype = "c_double"
                  /\ ShapeOf(b.images) = <<Prod(a.images.shape)>>
                  /\ IsNone(a.targets) = IsNone(b.targets)
                  /\ ~IsNone(a.targets) =>
                        /\ Val(b.targets).data = Val(a.targets).data
                        /\ ShapeOf(Val(b.targets)) = <<Prod(Val(a.targets).shape)>>

C3_Witness ==
    /\ BothLoaded
    /\ Targeted
    /\ Len(Val(out_arrays).batches) >= 2
    /\ Val(out_arrays).batches[1].images.shape = <<2, ImgH, ImgW>>
    /\ Len(Val(out_buffers).batches[1].images.data) = 2 * ImgH * ImgW

----------------------------------------------------------------------------
\* Claims about image_generator (SpecGenerator, FairSpecGenerator)

Yielded == g_pc = "yielded"
LastNames == Val(g_yield).names

\* C4: the total reported with a yield is the number of records handed out
\* since the current cycle began: the previous total plus the size of this
\* batch, never more than the window size L.  The batch is the next stretch
\* of the window, and once the window has been completed position and total
\* start again from 0: the next batch begins at record 0 and its total is
\* its own size.
C4_CumulativeTotal ==
    Yielded =>
        LET y == Val(g_yield)
            size == Len(y.names)
        IN  /\ y.total = cycle_count
            /\ total = y.total
            /\ y.total <= WindowSize
            /\ y.imgs.shape[1] = size
            /\ idx = cycle_count - size
            /\ y.names = [i \in 1..size |-> RecordPaths[idx + i]]
            /\ idx = 0 => y.total = size

\* A first batch of a later cycle, in a window of several batches.
C4_Witness ==
    /\ Yielded
    /\ g_wrapped
    /\ idx = 0
    /\ Val(g_yield).total = batch_size
    /\ WindowSize > batch_size
    /\ ~IsNone(max_samples) /\ Val(max_samples) < NumRecords

InWindow(names) ==
    \A k \in 1..Len(names) : \E i \in 1..WindowSize : names[k] = RecordPaths[i]

\* C5 as stated: a batch has at most batch_size records, all among the first
\* min(max_samples, n); a batch shorter than batch_size is the last of its
\* cycle and the window size is then no multiple of batch_size.
C5_Original ==
    Yielded =>
        /\ Len(LastNames) <= batch_size
        /\ InWindow(LastNames)
        /\ Len(LastNames) < batch_size =>
              /\ cycle_count = WindowSize
              /\ WindowSize % batch_size # 0

\* C5 as amended: the same for max_samples None or a count >= 0, except
\* that over an empty window (max_samples = 0) every batch is empty although
\* 0 is a multiple of batch_size.
C5_BatchBound ==
    Yielded =>
        /\ Len(LastNames) <= batch_size
        /\ InWindow(LastNames)
        /\ Len(LastNames) < batch_size =>
              /\ cycle_count = WindowSize
              /\ WindowSize % batch_size # 0 \/ WindowSize = 0
        /\ WindowSize = 0 => LastNames = <<>>

\* A short last batch of a window capped by max_samples.
C5_Witness ==
    /\ Yielded
    /\ Len(LastNames) >= 1
    /\ Len(LastNames) < batch_size
    /\ cycle_count = WindowSize
    /\ WindowSize % batch_size # 0
    /\ ~IsNone(max_samples) /\ Val(max_samples) < NumRecords

\* The batch a step hands out is the next stretch of the window, in order.
NextStretch ==
    WindowSize >= 1 /\ g_pc' = "yielded" /\ g_tick' # g_tick =>
        LET start == IF g_pc = "start" \/ cycle_count >= WindowSize THEN 0 ELSE cycle_count
            stop == IF start + batch_size < WindowSize THEN start + batch_size ELSE WindowSize
        IN  /\ stop > start
            /\ Val(g_yield').names = [i \in 1..(stop - start) |-> RecordPaths[start + i]]

YieldsRecord(r) == Yielded /\ \E k \in 1..Len(LastNames) : LastNames[k] = RecordPaths[r]

\* C6: over a non-empty window the generator never ends: while the consumer
\* keeps pulling, batches keep coming, each the next stretch of the window in
\* record order, and every record of the window is handed out again and
\* again.
C6_NeverEnds ==
    /\ [](WindowSize >= 1 => g_pc # "raised")
    /\ [][NextStretch]_vars
    /\ []<>(WindowSize >= 1 => g_tick = 0)
    /\ []<>(WindowSize >= 1 => g_tick = 1)
    /\ \A r \in 1..MaxRecords :
          []<>(r <= WindowSize => YieldsRecord(r))

\* The last record of a window of several batches, handed out in a later cycle.
C6_Witness ==
    /\ Yielded
    /\ g_wrapped
    /\ WindowSize >= 2
    /\ batch_size < WindowSize
    /\ YieldsRecord(WindowSize)

====
